---- MODULE Spec2Model ----
(***************************************************************************)
(* dqasm: a bit-packed binary codec for quantum circuits (structures.rs)   *)
(* and the text-to-gate extraction pipeline (qasm.rs, qasm_parser.rs).     *)
(*                                                                         *)
(* Bytes are integers 0..255, byte streams are sequences of bytes.         *)
(* Machine integers are modelled by naturals with the width reductions     *)
(* the source applies (as u8, u16 shifts); all values the model reaches    *)
(* stay far below 2^31.                                                    *)
(***************************************************************************)
EXTENDS Integers, Sequences, FiniteSets, TLC

VARIABLES
    pc,              \* position of the driver of the scenario
    buffer,          \* BitBuffer under test
    writes,          \* the (value, bits) calls made on buffer, in order
    reader,          \* BitReader under test
    vals,            \* the values read_bits returned, in order
    circ,            \* the in-memory Circuit
    out,             \* the bytes Circuit::write produced
    stream,          \* the bytes handed to Circuit::read
    decoded,         \* the result of Circuit::read
    input,           \* the text lines handed to the parser
    register_groups, \* parallel_parse_qasm: register name -> base offset
    gate_lines,      \* parallel_parse_qasm: the deferred lines
    matched,         \* parallel_parse_qasm: per deferred line, the closure's result
    overtaken,       \* history: a worker finished a line before an earlier line
    par,             \* result of parallel_parse_qasm
    seq              \* result of parse_qasm

vars == <<pc, buffer, writes, reader, vals, circ, out, stream, decoded,
          input, register_groups, gate_lines, matched, overtaken, par, seq>>

bitVars == <<buffer, writes, reader, vals>>
codecVars == <<circ, out, stream, decoded>>
textVars == <<input, register_groups, gate_lines, matched, overtaken, par, seq>>

----------------------------------------------------------------------------
(* Bounds of the model *)

MaxWrites == 2      \* write_bits calls per BitBuffer
MaxWidth == 9       \* widest field handed to write_bits
MaxGates == 2       \* gates appended to a circuit
MaxQubit == 2       \* largest qubit index handed to a gate constructor
LadderLen == 9      \* qubits of the circuit the gates may be appended to
MaxHdrQubits == 9   \* largest num_qubits field of a decoded stream
MaxHdrGates == 2    \* largest num_gates field of a decoded stream
MaxPayload == 2     \* bytes following the header of a decoded stream
MaxLines == 4       \* lines of a text parsed by both strategies
MaxScenarioLines == 4  \* lines of a text parsed, encoded and decoded

----------------------------------------------------------------------------
(* Machine arithmetic *)

Min(a, b) == IF a < b THEN a ELSE b

Pow2(n) == 2 ^ n

\* a & b on unsigned integers
RECURSIVE BitAnd(_, _)
BitAnd(a, b) ==
    IF a = 0 \/ b = 0 THEN 0
    ELSE (a % 2) * (b % 2) + 2 * BitAnd(a \div 2, b \div 2)

\* a | b on unsigned integers
RECURSIVE BitOr(_, _)
BitOr(a, b) ==
    IF a = 0 THEN b
    ELSE IF b = 0 THEN a
    ELSE (IF a % 2 = 1 \/ b % 2 = 1 THEN 1 ELSE 0) + 2 * BitOr(a \div 2, b \div 2)

\* x << n in a w-bit unsigned integer: bits shifted out are lost
Shl(x, n, w) == (x * Pow2(n)) % Pow2(w)

\* x >> n
Shr(x, n) == x \div Pow2(n)

----------------------------------------------------------------------------
(* BitBuffer *)

BitBuffer_new == [data |-> <<>>, bit_pos |-> 0]

\* write_bits with the selected bits stored unshifted (the offset is dropped)
RECURSIVE write_bits_noshift(_, _, _)
write_bits_noshift(self, value, bits) ==
    IF bits = 0 THEN self
    ELSE LET byte_index == self.bit_pos \div 8
             bit_offset == self.bit_pos % 8
             data1 == IF byte_index >= Len(self.data) THEN Append(self.data, 0)
                      ELSE self.data
             min_bits == Min(8 - bit_offset, bits)
             selection_mask == Pow2(min_bits) - 1
             selected_bits == BitAnd(value, selection_mask) % 256
             data2 == [data1 EXCEPT ![byte_index + 1] = BitOr(@, selected_bits)]
         IN  write_bits_noshift([data |-> data2, bit_pos |-> self.bit_pos + min_bits],
                                Shr(value, min_bits), bits - min_bits)

RECURSIVE write_bits(_, _, _)
write_bits(self, value, bits) ==
    IF bits = 0 THEN self
    ELSE LET byte_index == self.bit_pos \div 8
             bit_offset == self.bit_pos % 8
             data1 == IF byte_index >= Len(self.data) THEN Append(self.data, 0)
                      ELSE self.data
             min_bits == Min(8 - bit_offset, bits)
             selection_mask == Pow2(min_bits) - 1
             selected_bits == BitAnd(value, selection_mask) % 256
             data2 == [data1 EXCEPT ![byte_index + 1] =
                          BitOr(@, Shl(selected_bits, bit_offset, 8))]
         IN  write_bits([data |-> data2, bit_pos |-> self.bit_pos + min_bits],
                        Shr(value, min_bits), bits - min_bits)

bytes(self) == self.data

----------------------------------------------------------------------------
(* BitReader *)

BitReader_new(data) == [data |-> data, bit_pos |-> 0]

append(self, new_data) == [self EXCEPT !.data = self.data \o new_data]

\* The loop of read_bits; panic is set when the position is past the buffer.
RECURSIVE read_loop(_, _, _, _)
read_loop(self, bits, value, shift) ==
    IF bits = 0 THEN [reader |-> self, value |-> value, panic |-> FALSE]
    ELSE IF self.bit_pos >= Len(self.data) * 8
         THEN [reader |-> self, value |-> value, panic |-> TRUE]
    ELSE LET byte_index == self.bit_pos \div 8
             bit_offset == self.bit_pos % 8
             min_bits == Min(8 - bit_offset, bits)
             selection_mask == Shl(Pow2(min_bits) - 1, bit_offset, 16) % 256
             selected_bits == Shr(BitAnd(self.data[byte_index + 1], selection_mask),
                                  bit_offset)
         IN  read_loop([self EXCEPT !.bit_pos = self.bit_pos + min_bits],
                       bits - min_bits,
                       BitOr(value, selected_bits * Pow2(shift)),
                       shift + min_bits)

read_bits(self, bits) == read_loop(self, bits, 0, 0)

----------------------------------------------------------------------------
(* Byte streams: io::Write appends, io::Read consumes from a position *)

RECURSIVE to_le_bytes(_, _)
to_le_bytes(v, n) ==
    IF n = 0 THEN <<>> ELSE <<v % 256>> \o to_le_bytes(v \div 256, n - 1)

RECURSIVE from_le_bytes(_)
from_le_bytes(b) ==
    IF b = <<>> THEN 0 ELSE Head(b) + 256 * from_le_bytes(Tail(b))

Reader_new(data) == [data |-> data, pos |-> 0]

\* read_exact: n bytes or an UnexpectedEof error with the stream consumed
read_exact(r, n) ==
    IF r.pos + n > Len(r.data)
    THEN [ok |-> FALSE, buf |-> <<>>, reader |-> [r EXCEPT !.pos = Len(r.data)]]
    ELSE [ok |-> TRUE,
          buf |-> SubSeq(r.data, r.pos + 1, r.pos + n),
          reader |-> [r EXCEPT !.pos = r.pos + n]]

----------------------------------------------------------------------------
(* Header *)

\* b"DQASM\0"
dqasm_magic == <<68, 81, 65, 83, 77, 0>>

Header_new(num_qubits, num_gates) ==
    [magic |-> dqasm_magic, version |-> 1,
     num_qubits |-> num_qubits, num_gates |-> num_gates]

Header_write(self) ==
    self.magic \o to_le_bytes(self.version, 2)
               \o to_le_bytes(self.num_qubits, 4)
               \o to_le_bytes(self.num_gates, 8)

\* Header::read with the magic compared only after all four fields were read
Header_read_late_check(r) ==
    LET m == read_exact(r, 6)
        v == read_exact(m.reader, 2)
        q == read_exact(v.reader, 4)
        g == read_exact(q.reader, 8)
    IN  IF ~m.ok THEN [err |-> "UnexpectedEof", reader |-> m.reader]
        ELSE IF ~v.ok THEN [err |-> "UnexpectedEof", reader |-> v.reader]
        ELSE IF ~q.ok THEN [err |-> "UnexpectedEof", reader |-> q.reader]
        ELSE IF ~g.ok THEN [err |-> "UnexpectedEof", reader |-> g.reader]
        ELSE IF m.buf # dqasm_magic THEN [err |-> "InvalidData", reader |-> g.reader]
        ELSE [err |-> "none", reader |-> g.reader,
              header |-> [magic |-> m.buf,
                          version |-> from_le_bytes(v.buf),
                          num_qubits |-> from_le_bytes(q.buf),
                          num_gates |-> from_le_bytes(g.buf)]]

Header_read(r) ==
    LET m == read_exact(r, 6)
    IN  IF ~m.ok THEN [err |-> "UnexpectedEof", reader |-> m.reader]
        ELSE IF m.buf # dqasm_magic THEN [err |-> "InvalidData", reader |-> m.reader]
        ELSE
        LET v == read_exact(m.reader, 2)
        IN  IF ~v.ok THEN [err |-> "UnexpectedEof", reader |-> v.reader]
            ELSE
            LET q == read_exact(v.reader, 4)
            IN  IF ~q.ok THEN [err |-> "UnexpectedEof", reader |-> q.reader]
                ELSE
                LET g == read_exact(q.reader, 8)
                IN  IF ~g.ok THEN [err |-> "UnexpectedEof", reader |-> g.reader]
                    ELSE [err |-> "none", reader |-> g.reader,
                          header |-> [magic |-> m.buf,
                                      version |-> from_le_bytes(v.buf),
                                      num_qubits |-> from_le_bytes(q.buf),
                                      num_gates |-> from_le_bytes(g.buf)]]

----------------------------------------------------------------------------
(* Gate *)

op_bits == 2

Gate_new(gate_type, qubit1, qubit2) ==
    [gate_type |-> gate_type, qubit1 |-> qubit1, qubit2 |-> qubit2]

t(q) == Gate_new(0, q, 0)
cx(q1, q2) == Gate_new(1, q1, q2)
h(q) == Gate_new(2, q, 0)
s(q) == Gate_new(3, q, 0)

is_double_qubit(self) == self.gate_type = 1

\* get_qubits: the first qubit, and the second of a two-qubit gate
get_qubits(self) ==
    IF is_double_qubit(self) THEN <<self.qubit1, self.qubit2>> ELSE <<self.qubit1>>

\* 32 - x.leading_zeros() for a u32 x: the number of significant bits of x
RECURSIVE significant_bits(_)
significant_bits(x) == IF x = 0 THEN 0 ELSE 1 + significant_bits(x \div 2)

Builds == {"debug", "release"}
Overflow == -1

\* qubit_bits with the width of num_qubits rounded down: floor(log2(num_qubits))
qubit_bits_floor(num_qubits, b) ==
    IF num_qubits = 0 THEN (IF b = "debug" THEN Overflow ELSE 32)
    ELSE significant_bits(num_qubits) - 1

\* (32 - (num_qubits - 1).leading_zeros()): num_qubits - 1 on a u32 of value 0
\* aborts a build with overflow checks and wraps to 2^32 - 1 in one without.
qubit_bits(num_qubits, b) ==
    IF num_qubits = 0 THEN (IF b = "debug" THEN Overflow ELSE 32)
    ELSE significant_bits(num_qubits - 1)

\* Gate::write with the two qubit fields of a two-qubit gate in the wrong order
Gate_write_swapped(self, num_qubits, b) ==
    LET qb == qubit_bits(num_qubits, b)
    IN  IF qb = Overflow THEN [panic |-> TRUE, bytes |-> <<>>]
        ELSE LET b0 == write_bits(BitBuffer_new, self.gate_type, op_bits)
                 b1 == IF is_double_qubit(self) THEN write_bits(b0, self.qubit2, qb)
                       ELSE b0
                 b2 == write_bits(b1, self.qubit1, qb)
             IN  [panic |-> FALSE, bytes |-> bytes(b2)]

\* Gate::write: the bytes written for one gate; panic when the width overflows
Gate_write(self, num_qubits, b) ==
    LET qb == qubit_bits(num_qubits, b)
    IN  IF qb = Overflow THEN [panic |-> TRUE, bytes |-> <<>>]
        ELSE LET b0 == write_bits(BitBuffer_new, self.gate_type, op_bits)
                 b1 == write_bits(b0, self.qubit1, qb)
                 b2 == IF is_double_qubit(self) THEN write_bits(b1, self.qubit2, qb)
                       ELSE b1
             IN  [panic |-> FALSE, bytes |-> bytes(b2)]

\* Gate::read: err is "none", "UnexpectedEof" or "panic"
Gate_read(r, num_qubits, b) ==
    LET qb == qubit_bits(num_qubits, b)
    IN  IF qb = Overflow THEN [err |-> "panic", reader |-> r]
        ELSE
        LET first == read_exact(r, 1)
        IN  IF ~first.ok THEN [err |-> "UnexpectedEof", reader |-> first.reader]
            ELSE
            LET op == read_bits(BitReader_new(first.buf), op_bits)
                gate_type == op.value % 256
                double == (gate_type = 1)
                remaining_byte_size ==
                    (qb * ((IF double THEN 1 ELSE 0) + 1) + op_bits + 7) \div 8 - 1
                rest == read_exact(first.reader, remaining_byte_size)
            IN  IF ~rest.ok THEN [err |-> "UnexpectedEof", reader |-> rest.reader]
                ELSE
                LET q1 == read_bits(append(op.reader, rest.buf), qb)
                    q2 == IF double THEN read_bits(q1.reader, qb)
                          ELSE [reader |-> q1.reader, value |-> 0, panic |-> FALSE]
                IN  IF op.panic \/ q1.panic \/ q2.panic
                    THEN [err |-> "panic", reader |-> rest.reader]
                    ELSE [err |-> "none", reader |-> rest.reader,
                          gate |-> [gate_type |-> gate_type,
                                    qubit1 |-> q1.value,
                                    qubit2 |-> q2.value]]

----------------------------------------------------------------------------
(* Circuit *)

Circuit_new == [gates |-> <<>>, qubits |-> {}]

add_gate(self, gate) ==
    [gates |-> Append(self.gates, gate),
     qubits |-> self.qubits \cup {get_qubits(gate)[i] : i \in 1..Len(get_qubits(gate))}]

\* Circuit::write with all gates packed into one BitBuffer, no padding between them
RECURSIVE pack_gates(_, _, _)
pack_gates(buf, gates, qb) ==
    IF gates = <<>> THEN buf
    ELSE LET g == gates[Len(gates)]
             b0 == pack_gates(buf, SubSeq(gates, 1, Len(gates) - 1), qb)
             b1 == write_bits(b0, g.gate_type, op_bits)
             b2 == write_bits(b1, g.qubit1, qb)
         IN  IF is_double_qubit(g) THEN write_bits(b2, g.qubit2, qb) ELSE b2

Circuit_write_packed(self, b) ==
    LET header == Header_new(Cardinality(self.qubits), Len(self.gates))
    IN  IF self.gates = <<>> THEN [panic |-> FALSE, bytes |-> Header_write(header)]
        ELSE LET qb == qubit_bits(header.num_qubits, b)
             IN  IF qb = Overflow THEN [panic |-> TRUE, bytes |-> Header_write(header)]
                 ELSE [panic |-> FALSE,
                       bytes |-> Header_write(header)
                                 \o bytes(pack_gates(BitBuffer_new, self.gates, qb))]

\* try_for_each(|g| g.write(writer, header.num_qubits)): stops at the first failure
RECURSIVE write_gates(_, _, _)
write_gates(gates, num_qubits, b) ==
    IF gates = <<>> THEN [panic |-> FALSE, bytes |-> <<>>]
    ELSE LET g == Gate_write(Head(gates), num_qubits, b)
         IN  IF g.panic THEN g
             ELSE LET rest == write_gates(Tail(gates), num_qubits, b)
                  IN  [panic |-> rest.panic, bytes |-> g.bytes \o rest.bytes]

\* Circuit::write: the bytes written to the writer
Circuit_write(self, b) ==
    LET header == Header_new(Cardinality(self.qubits), Len(self.gates))
        payload == write_gates(self.gates, header.num_qubits, b)
    IN  [panic |-> payload.panic, bytes |-> Header_write(header) \o payload.bytes]

\* for _ in 0..header.num_gates { Gate::read; add_gate }
RECURSIVE read_gates(_, _, _, _, _)
read_gates(r, circuit, left, num_qubits, b) ==
    IF left = 0 THEN [err |-> "none", reader |-> r, circuit |-> circuit]
    ELSE LET g == Gate_read(r, num_qubits, b)
         IN  IF g.err # "none"
             THEN [err |-> g.err, reader |-> g.reader, circuit |-> circuit]
             ELSE read_gates(g.reader, add_gate(circuit, g.gate), left - 1, num_qubits, b)

\* Circuit::read. status "ok" carries the circuit; an error carries none.
\* pos is the number of bytes consumed from the stream, header the header read
\* (when one was), gate_reads the number of gates decoded.
Circuit_read(data, b) ==
    LET hr == Header_read(Reader_new(data))
    IN  IF hr.err # "none"
        THEN [status |-> hr.err, pos |-> hr.reader.pos, gate_reads |-> 0]
        ELSE LET gr == read_gates(hr.reader, Circuit_new, hr.header.num_gates,
                                  hr.header.num_qubits, b)
             IN  IF gr.err # "none"
                 THEN [status |-> gr.err, pos |-> gr.reader.pos, header |-> hr.header,
                       gate_reads |-> Len(gr.circuit.gates)]
                 ELSE [status |-> "ok", pos |-> gr.reader.pos, header |-> hr.header,
                       gate_reads |-> Len(gr.circuit.gates), circuit |-> gr.circuit]

----------------------------------------------------------------------------
(* Text lines.  A line is kept as the tokens the patterns capture:           *)
(*   [kind |-> "qreg", name, size]           qreg <name>[<size>];            *)
(*   [kind |-> "op1", op, name, index]       <op> <name>[<index>];           *)
(*   [kind |-> "op2", op, name1, index1, name2, index2]                      *)
(*                                           <op> <name1>[..],<name2>[..];   *)
(* A reference may carry the empty name, as in "t [0];".                     *)

DeclLine(name, size) == [kind |-> "qreg", name |-> name, size |-> size]
Op1Line(op, name, index) == [kind |-> "op1", op |-> op, name |-> name, index |-> index]
Op2Line(op, n1, i1, n2, i2) ==
    [kind |-> "op2", op |-> op, name1 |-> n1, index1 |-> i1, name2 |-> n2, index2 |-> i2]

\* HashMap<String, u32>
EmptyMap == [n \in {} |-> 0]
insert(map, key, value) ==
    [n \in DOMAIN map \cup {key} |-> IF n = key THEN value ELSE map[n]]

\* ^(qreg)\s+([a-zA-Z_][a-zA-Z0-9_]*)\[(\d+)\];$
qreg_re(line) == line.kind = "qreg"

\* The group ({keys}) of the gate patterns: the alternation of the register
\* names known when the pattern is built; with no name it is the empty group,
\* which matches the empty string only.
keys_group(keys, name) == IF keys = {} THEN name = "" ELSE name \in keys

\* ^(cx)\s+({keys})\[(\d+)\],\s*({keys})\[(\d+)\];$
cx_re(keys, line) ==
    /\ line.kind = "op2"
    /\ line.op = "cx"
    /\ keys_group(keys, line.name1)
    /\ keys_group(keys, line.name2)

\* ^(t|tdg)\s+({keys})\[(\d+)\];$
t_re(keys, line) ==
    /\ line.kind = "op1"
    /\ line.op \in {"t", "tdg"}
    /\ keys_group(keys, line.name)

\* Gate::tdg is called by the matcher and defined nowhere in structures.rs:
\* a single-qubit gate of a kind outside the codec's four.
tdg(q) == Gate_new(4, q, 0)

\* The body shared by the sequential loop and the parallel closure: the gate
\* of a line under a register table, "none" for a line no pattern matches,
\* "panic" when a captured name is no key of the table (register_groups[..]).
match_gate(groups, line) ==
    LET keys == DOMAIN groups
    IN  IF cx_re(keys, line)
        THEN IF line.name1 \in keys /\ line.name2 \in keys
             THEN [kind |-> "some",
                   gate |-> cx(line.index1 + groups[line.name1],
                               line.index2 + groups[line.name2])]
             ELSE [kind |-> "panic"]
        ELSE IF t_re(keys, line)
        THEN IF line.name \in keys
             THEN [kind |-> "some",
                   gate |-> IF line.op = "t" THEN t(line.index + groups[line.name])
                            ELSE tdg(line.index + groups[line.name])]
             ELSE [kind |-> "panic"]
        ELSE [kind |-> "none"]

RECURSIVE Flatten(_)
Flatten(ss) == IF ss = <<>> THEN <<>> ELSE Head(ss) \o Flatten(Tail(ss))

RECURSIVE add_gates(_, _)
add_gates(c, gates) ==
    IF gates = <<>> THEN c ELSE add_gates(add_gate(c, Head(gates)), Tail(gates))

----------------------------------------------------------------------------
(* parse_qasm: the sequential, dependency-layered strategy *)

\* The locals of parse_qasm before the first line.  layer_lines shadows
\* layers with the index of the input line each gate came from.
seq_start ==
    [qubit_next_layer |-> EmptyMap, layers |-> <<>>, layer_lines |-> <<>>,
     offset |-> 0, register_groups |-> EmptyMap]

next_layer(map, q) == IF q \in DOMAIN map THEN map[q] ELSE 0

RECURSIVE max_next_layer(_, _)
max_next_layer(map, qs) ==
    IF qs = <<>> THEN 0
    ELSE LET m == max_next_layer(map, Tail(qs))
             n == next_layer(map, Head(qs))
         IN  IF n > m THEN n ELSE m

RECURSIVE insert_all(_, _, _)
insert_all(map, qs, value) ==
    IF qs = <<>> THEN map ELSE insert_all(insert(map, Head(qs), value), Tail(qs), value)

\* place_gate with the gate's own layer recorded as the next free layer of its
\* qubits (the + 1 left out)
place_gate_nobump(st, gate, idx) ==
    LET qs == get_qubits(gate)
        max_layer == max_next_layer(st.qubit_next_layer, qs)
        grown == IF Len(st.layers) = max_layer THEN Append(st.layers, <<>>)
                 ELSE st.layers
        grown_lines == IF Len(st.layer_lines) = max_layer
                       THEN Append(st.layer_lines, <<>>) ELSE st.layer_lines
    IN  [st EXCEPT
            !.qubit_next_layer = insert_all(@, qs, max_layer),
            !.layers = [grown EXCEPT ![max_layer + 1] = Append(@, gate)],
            !.layer_lines = [grown_lines EXCEPT ![max_layer + 1] = Append(@, idx)]]

\* The layering of one recognised gate
place_gate(st, gate, idx) ==
    LET qs == get_qubits(gate)
        max_layer == max_next_layer(st.qubit_next_layer, qs)
        grown == IF Len(st.layers) = max_layer THEN Append(st.layers, <<>>)
                 ELSE st.layers
        grown_lines == IF Len(st.layer_lines) = max_layer
                       THEN Append(st.layer_lines, <<>>) ELSE st.layer_lines
    IN  [st EXCEPT
            !.qubit_next_layer = insert_all(@, qs, max_layer + 1),
            !.layers = [grown EXCEPT ![max_layer + 1] = Append(@, gate)],
            !.layer_lines = [grown_lines EXCEPT ![max_layer + 1] = Append(@, idx)]]

\* One iteration of the loop over the lines.  The patterns are built from a
\* table that is not empty, so every captured name is a key of it.
seq_line(st, line, idx) ==
    IF qreg_re(line)
    THEN [st EXCEPT !.register_groups = insert(@, line.name, st.offset),
                    !.offset = st.offset + line.size]
    ELSE IF DOMAIN st.register_groups = {} THEN st
    ELSE LET m == match_gate(st.register_groups, line)
         IN  IF m.kind = "some" THEN place_gate(st, m.gate, idx)
             ELSE st

RECURSIVE seq_lines(_, _, _)
seq_lines(st, lines, idx) ==
    IF idx > Len(lines) THEN st
    ELSE seq_lines(seq_line(st, lines[idx], idx), lines, idx + 1)

RECURSIVE layer_numbers(_, _)
layer_numbers(layers, k) ==
    IF layers = <<>> THEN <<>>
    ELSE [i \in 1..Len(Head(layers)) |-> k] \o layer_numbers(Tail(layers), k + 1)

\* parse_qasm: the circuit, with for each gate of it the input line it came
\* from and the layer it was put in
parse_qasm(lines) ==
    LET st == seq_lines(seq_start, lines, 1)
    IN  [status |-> "ok",
         circuit |-> add_gates(Circuit_new, Flatten(st.layers)),
         lines |-> Flatten(st.layer_lines),
         layer |-> layer_numbers(st.layers, 0)]

----------------------------------------------------------------------------
(* parallel_parse_qasm: the register pass, the parallel matching, the collection *)

\* register_pass with the offset advanced before the name is inserted
RECURSIVE register_pass_advance_first(_, _)
register_pass_advance_first(st, lines) ==
    IF lines = <<>> THEN st
    ELSE LET line == Head(lines)
         IN  IF qreg_re(line)
             THEN register_pass_advance_first(
                      [st EXCEPT !.register_groups =
                                     insert(@, line.name, st.offset + line.size),
                                 !.offset = st.offset + line.size],
                      Tail(lines))
             ELSE register_pass_advance_first(
                      [st EXCEPT !.gate_lines = Append(@, line)], Tail(lines))

\* The loop over reader.lines(): declarations fill the table, every other
\* line is deferred
RECURSIVE register_pass(_, _)
register_pass(st, lines) ==
    IF lines = <<>> THEN st
    ELSE LET line == Head(lines)
         IN  IF qreg_re(line)
             THEN register_pass(
                      [st EXCEPT !.register_groups = insert(@, line.name, st.offset),
                                 !.offset = st.offset + line.size],
                      Tail(lines))
             ELSE register_pass([st EXCEPT !.gate_lines = Append(@, line)], Tail(lines))

\* collect with the results gathered last line first
RECURSIVE collect_reversed(_)
collect_reversed(results) ==
    IF results = <<>> THEN <<>>
    ELSE collect_reversed(Tail(results))
         \o (IF Head(results).kind = "some" THEN <<Head(results).gate>> ELSE <<>>)

\* par_iter().filter_map(..).collect(): the gates of the matched lines, in
\* the order of the lines
RECURSIVE collect(_)
collect(results) ==
    IF results = <<>> THEN <<>>
    ELSE (IF Head(results).kind = "some" THEN <<Head(results).gate>> ELSE <<>>)
         \o collect(Tail(results))

----------------------------------------------------------------------------
(* Scenario: a fresh BitBuffer is written, then read back field by field *)

\* The values tried for a field of n bits: all zeros, all ones, the two
\* alternating patterns, the lowest and the highest bit alone.
RECURSIVE Alternating(_)
Alternating(n) == IF n <= 0 THEN 0 ELSE 1 + 4 * Alternating(n - 2)

SampleValues(n) ==
    {v \in {0, 1, Pow2(n) - 1,
            Alternating(n) % Pow2(n),
            (2 * Alternating(n)) % Pow2(n),
            IF n = 0 THEN 0 ELSE Pow2(n - 1)} : v < Pow2(n)}

InitIdleBits ==
    /\ buffer = BitBuffer_new
    /\ writes = <<>>
    /\ reader = BitReader_new(<<>>)
    /\ vals = <<>>

InitIdleCodec ==
    /\ circ = Circuit_new
    /\ out = <<>>
    /\ stream = <<>>
    /\ decoded = [status |-> "none"]

InitIdleText ==
    /\ input = <<>>
    /\ register_groups = EmptyMap
    /\ gate_lines = <<>>
    /\ matched = <<>>
    /\ overtaken = FALSE
    /\ par = [status |-> "none"]
    /\ seq = [status |-> "none"]

InitBits ==
    /\ pc = "writing"
    /\ InitIdleBits
    /\ InitIdleCodec
    /\ InitIdleText

WriteBits(v, n) ==
    /\ pc = "writing"
    /\ Len(writes) < MaxWrites
    /\ buffer' = write_bits(buffer, v, n)
    /\ writes' = Append(writes, [value |-> v, bits |-> n])
    /\ UNCHANGED <<pc, reader, vals, codecVars, textVars>>

NewReader ==
    /\ pc = "writing"
    /\ reader' = BitReader_new(bytes(buffer))
    /\ pc' = "reading"
    /\ UNCHANGED <<buffer, writes, vals, codecVars, textVars>>

ReadBits ==
    /\ pc = "reading"
    /\ Len(vals) < Len(writes)
    /\ LET r == read_bits(reader, writes[Len(vals) + 1].bits)
       IN  IF r.panic
           THEN /\ pc' = "panicked"
                /\ UNCHANGED <<reader, vals>>
           ELSE /\ reader' = r.reader
                /\ vals' = Append(vals, r.value)
                /\ pc' = pc
    /\ UNCHANGED <<buffer, writes, codecVars, textVars>>

NextBits ==
    \/ \E n \in 0..MaxWidth : \E v \in SampleValues(n) : WriteBits(v, n)
    \/ NewReader
    \/ ReadBits

SpecBits == InitBits /\ [][NextBits]_vars

----------------------------------------------------------------------------
(* Scenario: a circuit is built gate by gate, written, and the bytes read back *)

\* The gates the four constructors make over the qubits 0..MaxQubit
GateInputs ==
    {t(q) : q \in 0..MaxQubit} \cup {h(q) : q \in 0..MaxQubit}
    \cup {s(q) : q \in 0..MaxQubit}
    \cup {cx(q1, q2) : q1 \in 0..MaxQubit, q2 \in 0..MaxQubit}

\* The circuit starts empty, or already holds one t gate on each of the
\* qubits 0..LadderLen-1 (a circuit wide enough for qubit fields of 4 bits).
Ladder(k) == add_gates(Circuit_new, [i \in 1..k |-> t(i - 1)])

InitCodec ==
    /\ pc = "building"
    /\ InitIdleBits
    /\ circ \in {Ladder(0), Ladder(LadderLen)}
    /\ out = <<>>
    /\ stream = <<>>
    /\ decoded = [status |-> "none"]
    /\ InitIdleText

\* The number of gates appended to the initial circuit
Appended ==
    IF Len(circ.gates) >= LadderLen THEN Len(circ.gates) - LadderLen
    ELSE Len(circ.gates)

AddGate(g) ==
    /\ pc = "building"
    /\ Appended < MaxGates
    /\ circ' = add_gate(circ, g)
    /\ UNCHANGED <<pc, out, stream, decoded, bitVars, textVars>>

\* circuit.write(&mut writer)
WriteCircuit ==
    /\ pc = "building"
    /\ \E b \in Builds :
          LET w == Circuit_write(circ, b)
          IN  /\ out' = w.bytes
              /\ pc' = IF w.panic THEN "panicked" ELSE "written"
    /\ UNCHANGED <<circ, stream, decoded, bitVars, textVars>>

\* The written bytes are handed to Circuit::read(&mut reader)
ReadBack ==
    /\ pc = "written"
    /\ stream' = out
    /\ \E b \in Builds : decoded' = Circuit_read(out, b)
    /\ pc' = "decoded"
    /\ UNCHANGED <<circ, out, bitVars, textVars>>

NextCodec ==
    \/ \E g \in GateInputs : AddGate(g)
    \/ WriteCircuit
    \/ ReadBack

SpecCodec == InitCodec /\ [][NextCodec]_vars

----------------------------------------------------------------------------
(* Scenario: an arbitrary byte stream is decoded and the result re-encoded *)

BadMagicLast == <<68, 81, 65, 83, 77, 1>>
BadMagicFirst == <<100, 81, 65, 83, 77, 0>>
Magics == {dqasm_magic, BadMagicLast, BadMagicFirst}

Versions == {1, 2}

\* Gate bytes: t q0; h q1 and cx(0,1) at width 1; the first byte of a wide cx;
\* all ones.
SampleBytes == {0, 6, 9, 33, 255}

RECURSIVE SeqsUpTo(_, _)
SeqsUpTo(S, n) ==
    IF n = 0 THEN {<<>>}
    ELSE SeqsUpTo(S, n - 1)
         \cup {Append(p, x) : p \in {q \in SeqsUpTo(S, n - 1) : Len(q) = n - 1}, x \in S}

RawHeader(m, v, q, g) ==
    m \o to_le_bytes(v, 2) \o to_le_bytes(q, 4) \o to_le_bytes(g, 8)

Streams ==
    {RawHeader(m, v, q, g) \o p :
        m \in Magics, v \in Versions, q \in 0..MaxHdrQubits, g \in 0..MaxHdrGates,
        p \in SeqsUpTo(SampleBytes, MaxPayload)}
    \cup {SubSeq(RawHeader(m, 1, 1, 0), 1, k) : m \in Magics, k \in 0..19}

InitDecode ==
    /\ pc = "stream"
    /\ InitIdleBits
    /\ circ = Circuit_new
    /\ out = <<>>
    /\ stream \in Streams
    /\ decoded = [status |-> "none"]
    /\ InitIdleText

\* Circuit::read(&mut reader)
DecodeStream ==
    /\ pc = "stream"
    /\ \E b \in Builds : decoded' = Circuit_read(stream, b)
    /\ pc' = "decoded"
    /\ UNCHANGED <<circ, out, stream, bitVars, textVars>>

\* let circuit = Circuit::read(&mut reader)?; circuit.write(&mut writer)?
ReEncode ==
    /\ pc = "decoded"
    /\ decoded.status = "ok"
    /\ circ' = decoded.circuit
    /\ \E b \in Builds :
          LET w == Circuit_write(decoded.circuit, b)
          IN  /\ out' = w.bytes
              /\ pc' = IF w.panic THEN "panicked" ELSE "reencoded"
    /\ UNCHANGED <<stream, decoded, bitVars, textVars>>

NextDecode ==
    \/ DecodeStream
    \/ ReEncode

SpecDecode == InitDecode /\ [][NextDecode]_vars

----------------------------------------------------------------------------
(* Scenario: one text is parsed by parse_qasm and by parallel_parse_qasm *)

\* qreg q[2];  qreg r[3];  t q[0];  cx q[0],q[1];  t q[1];  t r[0];
\* tdg q[0];  t [0];
TextLines ==
    {DeclLine("q", 2), DeclLine("r", 3),
     Op1Line("t", "q", 0), Op2Line("cx", "q", 0, "q", 1), Op1Line("t", "q", 1),
     Op1Line("t", "r", 0), Op1Line("tdg", "q", 0), Op1Line("t", "", 0)}

InitText ==
    /\ pc = "text"
    /\ InitIdleBits
    /\ InitIdleCodec
    /\ input \in SeqsUpTo(TextLines, MaxLines)
    /\ register_groups = EmptyMap
    /\ gate_lines = <<>>
    /\ matched = <<>>
    /\ overtaken = FALSE
    /\ par = [status |-> "none"]
    /\ seq = [status |-> "none"]

\* parse_qasm(reader)
ParseSequential ==
    /\ pc = "text"
    /\ seq' = parse_qasm(input)
    /\ pc' = "registers"
    /\ UNCHANGED <<input, register_groups, gate_lines, matched, overtaken, par,
                   bitVars, codecVars>>

\* parallel_parse_qasm: the loop over reader.lines()
RegisterPass ==
    /\ pc = "registers"
    /\ LET st == register_pass([offset |-> 0, register_groups |-> EmptyMap,
                                gate_lines |-> <<>>], input)
       IN  /\ register_groups' = st.register_groups
           /\ gate_lines' = st.gate_lines
           /\ matched' = [i \in 1..Len(st.gate_lines) |-> [kind |-> "pending"]]
    /\ pc' = "matching"
    /\ UNCHANGED <<input, overtaken, par, seq, bitVars, codecVars>>

\* A worker of the pool runs the closure on one deferred line
MatchLine(i) ==
    /\ pc = "matching"
    /\ matched[i].kind = "pending"
    /\ matched' = [matched EXCEPT ![i] = match_gate(register_groups, gate_lines[i])]
    /\ overtaken' = (overtaken \/ \E j \in 1..(i - 1) : matched[j].kind = "pending")
    /\ UNCHANGED <<pc, input, register_groups, gate_lines, par, seq, bitVars, codecVars>>

\* collect(), then the circuit is built; a panic of a worker is resumed here
Collect ==
    /\ pc = "matching"
    /\ \A i \in DOMAIN matched : matched[i].kind # "pending"
    /\ par' = IF \E i \in DOMAIN matched : matched[i].kind = "panic"
              THEN [status |-> "panic"]
              ELSE [status |-> "ok", circuit |-> add_gates(Circuit_new, collect(matched))]
    /\ pc' = "done"
    /\ UNCHANGED <<input, register_groups, gate_lines, matched, overtaken, seq,
                   bitVars, codecVars>>

NextText ==
    \/ ParseSequential
    \/ RegisterPass
    \/ \E i \in DOMAIN matched : MatchLine(i)
    \/ Collect

SpecText == InitText /\ [][NextText]_vars

----------------------------------------------------------------------------
(* Scenario: a text is parsed in parallel, encoded, and the bytes decoded *)

\* qreg q[2];  h q[0];  cx q[0],q[1];  t q[1];  s q[1];
ScenarioLines ==
    {DeclLine("q", 2), Op1Line("h", "q", 0), Op2Line("cx", "q", 0, "q", 1),
     Op1Line("t", "q", 1), Op1Line("s", "q", 1)}

InitEndToEnd ==
    /\ pc = "registers"
    /\ InitIdleBits
    /\ InitIdleCodec
    /\ input \in SeqsUpTo(ScenarioLines, MaxScenarioLines)
    /\ register_groups = EmptyMap
    /\ gate_lines = <<>>
    /\ matched = <<>>
    /\ overtaken = FALSE
    /\ par = [status |-> "none"]
    /\ seq = [status |-> "none"]

\* let circuit = parallel_parse_qasm(reader)?; circuit.write(&mut writer)?
WriteParsed ==
    /\ pc = "done"
    /\ par.status = "ok"
    /\ circ' = par.circuit
    /\ \E b \in Builds :
          LET w == Circuit_write(par.circuit, b)
          IN  /\ out' = w.bytes
              /\ pc' = IF w.panic THEN "panicked" ELSE "written"
    /\ UNCHANGED <<stream, decoded, bitVars, textVars>>

NextEndToEnd ==
    \/ RegisterPass
    \/ \E i \in DOMAIN matched : MatchLine(i)
    \/ Collect
    \/ WriteParsed
    \/ ReadBack

SpecEndToEnd == InitEndToEnd /\ [][NextEndToEnd]_vars

----------------------------------------------------------------------------
\* C3: every value read back equals the value written at the same position,
\* and the reader never runs past the end of the writer's bytes.
C3_BitExactInverse ==
    /\ pc # "panicked"
    /\ pc = "reading" =>
          \A i \in 1..Len(vals) : vals[i] = writes[i].value

\* All fields read back, the second one written across a byte boundary.
C3_Witness ==
    /\ pc = "reading"
    /\ Len(writes) = 2
    /\ Len(vals) = 2
    /\ writes[1].bits % 8 # 0
    /\ (writes[1].bits % 8) + writes[2].bits > 8
    /\ writes[1].value # 0
    /\ writes[2].value = Pow2(writes[2].bits) - 1

----------------------------------------------------------------------------
(* Codec claims *)

Contiguous(S) == S # {} /\ S = 0..(Cardinality(S) - 1)

\* C1: when the circuit written has the qubit set [0, N) with N >= 1, reading
\* the written bytes back succeeds and yields the same gates in the same order
\* (kind, first qubit, and second qubit of a two-qubit gate) and the same
\* qubit set.
C1_DecodeEncodeRoundTrip ==
    (pc = "decoded" /\ Contiguous(circ.qubits)) =>
        /\ decoded.status = "ok"
        /\ Len(decoded.circuit.gates) = Len(circ.gates)
        /\ \A i \in 1..Len(circ.gates) :
              /\ decoded.circuit.gates[i].gate_type = circ.gates[i].gate_type
              /\ decoded.circuit.gates[i].qubit1 = circ.gates[i].qubit1
              /\ circ.gates[i].gate_type = 1 =>
                    decoded.circuit.gates[i].qubit2 = circ.gates[i].qubit2
        /\ decoded.circuit.qubits = circ.qubits

\* A circuit over nine qubits, whose last gate is a two-qubit gate that takes
\* two bytes, has been written and read back.
C1_Witness ==
    /\ pc = "decoded"
    /\ circ.qubits = 0..8
    /\ circ.gates[Len(circ.gates)] = cx(2, 1)
    /\ circ.gates[Len(circ.gates) - 1].gate_type = 3
    /\ decoded.status = "ok"

\* The number of bits of a gate's fields, and of bytes of its record
FieldBits(g, qb) == op_bits + qb * (IF g.gate_type = 1 THEN 2 ELSE 1)
RecordBytes(g, qb) == (FieldBits(g, qb) + 7) \div 8

RECURSIVE SumFieldBits(_, _)
SumFieldBits(gates, qb) ==
    IF gates = <<>> THEN 0 ELSE FieldBits(Head(gates), qb) + SumFieldBits(Tail(gates), qb)

RECURSIVE SumRecordBytes(_, _)
SumRecordBytes(gates, qb) ==
    IF gates = <<>> THEN 0
    ELSE RecordBytes(Head(gates), qb) + SumRecordBytes(Tail(gates), qb)

\* The width Circuit::write derives for a circuit that holds a gate
WidthOf(c) == significant_bits(Cardinality(c.qubits) - 1)

\* C9 as claimed: the payload is the gates' fields packed with no padding
\* between gates, ceil(total gate bits / 8) bytes after the 20-byte header.
C9_PackedAcrossGates ==
    (pc = "written" /\ circ.gates # <<>>) =>
        Len(out) = 20 + (SumFieldBits(circ.gates, WidthOf(circ)) + 7) \div 8

\* C9 as the code has it: every gate record starts on a byte boundary and is
\* padded with zero bits to a whole number of bytes, so the payload occupies
\* the sum over the gates of ceil(gate bits / 8) bytes after the 20-byte
\* header, and the opcode of each gate is the low two bits of the first byte
\* of its own record.
C9_RecordsBytePadded ==
    (pc = "written" /\ circ.gates # <<>>) =>
        LET qb == WidthOf(circ)
        IN  /\ Len(out) = 20 + SumRecordBytes(circ.gates, qb)
            /\ \A i \in 1..Len(circ.gates) :
                  LET start == 20 + SumRecordBytes(SubSeq(circ.gates, 1, i - 1), qb)
                      n == RecordBytes(circ.gates[i], qb)
                      rec == from_le_bytes(SubSeq(out, start + 1, start + n))
                  IN  /\ rec % 4 = circ.gates[i].gate_type
                      /\ rec < Pow2(FieldBits(circ.gates[i], qb))

\* A two-qubit gate whose fields take ten bits, ending in the middle of its
\* second byte, was written and another gate after it.
C9_Witness ==
    /\ pc = "written"
    /\ Len(circ.gates) = LadderLen + 2
    /\ circ.gates[LadderLen + 1].gate_type = 1
    /\ FieldBits(circ.gates[LadderLen + 1], WidthOf(circ)) = 10
    /\ circ.gates[LadderLen + 2].gate_type = 2

\* The decoded stream is byte for byte what Circuit::write emits: version 1,
\* a qubit count equal to the number of distinct qubits its gates name, zero
\* padding bits in every gate record, and no byte after the last record.
RECURSIVE PaddingIsZero(_, _, _, _)
PaddingIsZero(data, pos, gates, qb) ==
    IF gates = <<>> THEN TRUE
    ELSE LET n == RecordBytes(Head(gates), qb)
         IN  /\ from_le_bytes(SubSeq(data, pos + 1, pos + n))
                    < Pow2(FieldBits(Head(gates), qb))
             /\ PaddingIsZero(data, pos + n, Tail(gates), qb)

CanonicalStream ==
    /\ decoded.header.version = 1
    /\ decoded.header.num_qubits = Cardinality(decoded.circuit.qubits)
    /\ decoded.pos = Len(stream)
    /\ PaddingIsZero(stream, 20, decoded.circuit.gates,
                     significant_bits(decoded.header.num_qubits - 1))

\* C2 as claimed: every stream that decodes into a circuit with at least one
\* qubit is re-encoded to exactly the same bytes.
C2_EncodeDecodeIdentity ==
    (pc = "reencoded" /\ decoded.circuit.qubits # {}) => out = stream

\* C2 as the code has it: a stream that decodes into a circuit with at least
\* one qubit is re-encoded to the same bytes exactly when its version field is
\* 1, its qubit-count field equals the number of distinct qubits its gates
\* name, the padding bits of every gate record are zero and no byte follows
\* the last gate record.
C2_CanonicalIdentity ==
    (pc = "reencoded" /\ decoded.circuit.qubits # {}) =>
        (out = stream <=> CanonicalStream)

\* A canonical stream with two gates at width 1 was decoded and re-encoded.
C2_Witness ==
    /\ pc = "reencoded"
    /\ CanonicalStream
    /\ decoded.header.num_qubits = 2
    /\ Len(decoded.circuit.gates) = 2
    /\ out = stream

\* C6: a stream whose first six bytes are not the magic is rejected with
\* InvalidData once exactly those six bytes are consumed; no later header
\* field is read, no gate is decoded and no circuit is returned.
C6_BadMagicRejected ==
    (pc = "decoded" /\ Len(stream) >= 6 /\ SubSeq(stream, 1, 6) # dqasm_magic) =>
        /\ decoded.status = "InvalidData"
        /\ decoded.pos = 6
        /\ decoded.gate_reads = 0
        /\ DOMAIN decoded = {"status", "pos", "gate_reads"}

\* A full-length stream with a wrong magic, announcing gates, was rejected.
C6_Witness ==
    /\ pc = "decoded"
    /\ Len(stream) > 20
    /\ SubSeq(stream, 1, 6) = BadMagicLast
    /\ from_le_bytes(SubSeq(stream, 13, 20)) >= 1
    /\ decoded.status = "InvalidData"

----------------------------------------------------------------------------
(* Text pipeline claims *)

\* The gates of the recognised lines of a text, in the order of the text,
\* under a register table
RECURSIVE RecognisedInOrder(_, _)
RecognisedInOrder(groups, lines) ==
    IF lines = <<>> THEN <<>>
    ELSE (IF ~qreg_re(Head(lines)) /\ match_gate(groups, Head(lines)).kind = "some"
          THEN <<match_gate(groups, Head(lines)).gate>> ELSE <<>>)
         \o RecognisedInOrder(groups, Tail(lines))

\* C4: whatever order the workers matched the lines in, the gates of the
\* circuit parallel_parse_qasm returns are the gates of the recognised lines
\* in the order of the text: none reordered, duplicated or dropped.
C4_ParallelKeepsTextOrder ==
    (pc = "done" /\ par.status = "ok") =>
        par.circuit.gates = RecognisedInOrder(register_groups, input)

\* Two different gates were recognised and the line between them was not,
\* and a worker finished a line before an earlier line was matched.
C4_Witness ==
    /\ pc = "done"
    /\ par.status = "ok"
    /\ overtaken
    /\ Len(gate_lines) = 3
    /\ matched[1].kind = "some"
    /\ matched[2].kind = "none"
    /\ matched[3].kind = "some"
    /\ matched[1].gate # matched[3].gate
    /\ Len(par.circuit.gates) = 2

SharesQubit(g1, g2) ==
    \E i \in 1..Len(get_qubits(g1)) : \E j \in 1..Len(get_qubits(g2)) :
        get_qubits(g1)[i] = get_qubits(g2)[j]

LayeringExample ==
    <<DeclLine("q", 2), Op1Line("t", "q", 0), Op2Line("cx", "q", 0, "q", 1),
      Op1Line("t", "q", 1)>>

\* C5: in the output of parse_qasm, of two gates that share a qubit the one
\* from the earlier line has the strictly lower layer and the earlier place;
\* gates of one layer stand in the order of their lines; and the gates on
\* qubit 0, qubits 0 and 1, qubit 1 get the layers 0, 1, 2.
C5_SequentialLayering ==
    seq.status = "ok" =>
        LET gates == seq.circuit.gates
        IN  /\ \A p \in 1..Len(gates) : \A q \in 1..Len(gates) :
                  (seq.lines[p] < seq.lines[q] /\ SharesQubit(gates[p], gates[q])) =>
                      (seq.layer[p] < seq.layer[q] /\ p < q)
            /\ \A p \in 1..Len(gates) : \A q \in 1..Len(gates) :
                  (p < q /\ seq.layer[p] = seq.layer[q]) => seq.lines[p] < seq.lines[q]
            /\ input = LayeringExample =>
                  /\ gates = <<t(0), cx(0, 1), t(1)>>
                  /\ seq.layer = <<0, 1, 2>>

\* The three-gate example has been parsed by parse_qasm.
C5_Witness ==
    /\ seq.status = "ok"
    /\ input = LayeringExample
    /\ Len(seq.circuit.gates) = 3

\* The index of the last declaration of a name, the sizes declared before a line
LastDecl(name) ==
    CHOOSE i \in 1..Len(input) :
        /\ qreg_re(input[i]) /\ input[i].name = name
        /\ \A j \in (i + 1)..Len(input) : ~(qreg_re(input[j]) /\ input[j].name = name)

RECURSIVE SizesBefore(_)
SizesBefore(i) ==
    IF i <= 1 THEN 0
    ELSE (IF qreg_re(input[i - 1]) THEN input[i - 1].size ELSE 0) + SizesBefore(i - 1)

OffsetExample ==
    <<DeclLine("q", 2), DeclLine("r", 3), Op1Line("t", "q", 1), Op1Line("t", "r", 0)>>

\* C8: after the register pass every declared name has the base offset that
\* is the sum of the sizes declared before its declaration; the ranges
\* [base, base + size) of two names do not overlap and ascend in the order of
\* declaration; a matched reference name[i] is the qubit base(name) + i; and
\* after qreg q[2]; qreg r[3]; q[1] is qubit 1 and r[0] is qubit 2.
C8_RegisterOffsets ==
    pc \in {"matching", "done"} =>
        /\ DOMAIN register_groups =
              {input[i].name : i \in {j \in 1..Len(input) : qreg_re(input[j])}}
        /\ \A n \in DOMAIN register_groups :
              register_groups[n] = SizesBefore(LastDecl(n))
        /\ \A a \in DOMAIN register_groups : \A b \in DOMAIN register_groups :
              LastDecl(a) < LastDecl(b) =>
                  register_groups[a] + input[LastDecl(a)].size <= register_groups[b]
        /\ \A i \in DOMAIN matched :
              matched[i].kind = "some" =>
                  IF gate_lines[i].kind = "op1"
                  THEN matched[i].gate.qubit1 =
                           register_groups[gate_lines[i].name] + gate_lines[i].index
                  ELSE /\ matched[i].gate.qubit1 =
                              register_groups[gate_lines[i].name1] + gate_lines[i].index1
                       /\ matched[i].gate.qubit2 =
                              register_groups[gate_lines[i].name2] + gate_lines[i].index2
        /\ (pc = "done" /\ input = OffsetExample) =>
              /\ par.status = "ok"
              /\ par.circuit.gates = <<t(1), t(2)>>

\* The two-register example has been parsed by parallel_parse_qasm.
C8_Witness ==
    /\ pc = "done"
    /\ input = OffsetExample
    /\ register_groups["r"] = 2

Count(gates, g) == Cardinality({i \in 1..Len(gates) : gates[i] = g})

\* C10: on every text, the gates parse_qasm returns are a permutation of the
\* gates parallel_parse_qasm returns.
C10_SameGatesBothStrategies ==
    (pc = "done" /\ par.status = "ok") =>
        /\ Len(seq.circuit.gates) = Len(par.circuit.gates)
        /\ \A i \in 1..Len(par.circuit.gates) :
              Count(seq.circuit.gates, par.circuit.gates[i])
                  = Count(par.circuit.gates, par.circuit.gates[i])

EndToEndExample ==
    <<DeclLine("q", 2), Op1Line("h", "q", 0), Op2Line("cx", "q", 0, "q", 1),
      Op1Line("t", "q", 1)>>

\* C7: the text qreg q[2]; h q[0]; cx q[0],q[1]; t q[1]; parsed in parallel,
\* written and read back is a circuit of exactly 3 gates over the qubits
\* {0, 1} whose two-qubit gate has the operands (0, 1).
C7_EndToEndThreeGates ==
    (pc = "decoded" /\ input = EndToEndExample) =>
        /\ decoded.status = "ok"
        /\ Len(decoded.circuit.gates) = 3
        /\ decoded.circuit.qubits = {0, 1}
        /\ \E i \in 1..Len(decoded.circuit.gates) :
              decoded.circuit.gates[i] = cx(0, 1)

====
